---- MODULE Spec2Model ----
(***************************************************************************)
(* RetroCell: a single-writer / multi-reader cell with in-place and        *)
(* copy-on-write updates, retro reads, a garbage queue and a node pool.    *)
(* Every atomic access of src/src/{reader,writer,sync,shared}.rs is one    *)
(* step; the writer and each reader are threads with a program counter.    *)
(***************************************************************************)
EXTENDS Integers, Sequences, FiniteSets, TLC

\* ---------------------------------------------------------------- bounds
MaxWrites == 4          \* Spec: write operations the writer starts
MaxReads == 1           \* Spec: read operations the reader starts
NumReaders == 2         \* SpecReaders: reader handles (clones of the Reader)
MaxWritesReaders == 2   \* SpecReaders: write operations the writer starts
MaxReadsReaders == 1    \* SpecReaders: read operations each reader starts
MaxWritesFair == 3      \* SpecFair: write operations the writer starts
MaxReadsFair == 1       \* SpecFair: read operations the reader starts
MaxWritesTwice == 3     \* SpecTwice: write operations the writer starts
MaxReadsTwice == 2      \* SpecTwice: read operations the reader starts
MaxWritesWrap == 4
MaxReadsWrap == 1

\* ------------------------------------------------------- program constants
NULL == 0               \* ptr::null_mut()
WAITING_BIT == 1        \* bit 31 of the RefCount word, kept as its own field
COUNT_MASK == 2147483647 \* the 31 count bits: the largest count, 2^31 - 1
\* The notifier is an AtomicU32. Its word is written as the two's-complement
\* integer with the same 32 bits: 0 .. 2^31 - 1 are themselves and 2^32 - k
\* is -k, so that TicketTop is the word 2^32 - 1, all bits set.
TicketTop == -1
\* fetch_add(1) on the word: it wraps from 2^32 - 1 to 0.
TicketNext(t) == IF t = 2147483647 THEN -2147483647 - 1 ELSE t + 1
\* The order of the words as unsigned numbers.
TicketBelow(a, b) == IF (a < 0) = (b < 0) THEN a < b ELSE b < 0
TORN == -1              \* what a read of T may yield when it races a write

\* Nodes ever allocated: the initial one and at most one per write (SpecReaders
\* starts after two writes, with three nodes).
NodeCap == IF MaxWrites + 1 > MaxWritesReaders + MaxWritesFair + 3
           THEN MaxWrites + 1 ELSE MaxWritesReaders + MaxWritesFair + 3
Nodes == 1..NodeCap
Readers == 1..NumReaders

VARIABLES
    current,    \* SharedState.current: [ptr, lock]
    previous,   \* SharedState.previous: a node or NULL
    notifier,   \* SharedState.notifier.inner (the u32 word, see TicketTop)
    data,       \* Node.data of every node
    rc,         \* Node.reader_count.state of every node: [w, c]
    nalloc,     \* nodes 1..nalloc have been allocated
    freed,      \* nodes whose storage has been freed
    garbage,    \* RetroCell.garbage (front first)
    pool,       \* RetroCell.pool (top last)
    wAlive,     \* the RetroCell handle exists
    rAlive,     \* rAlive[r]: reader handle r exists
    wpc,        \* the writer's position
    wval,       \* the writer's curr_val
    wnew,       \* perform_cow: new_node (NULL when none)
    wnewdata,   \* perform_cow: new_data
    wold,       \* perform_cow: old_ptr
    wzval,      \* wait_until_zero: val / val_now
    gval,       \* InPlaceGuard.locked_val
    wleft,      \* write operations the writer may still start
    kinds,      \* history: the kind of every completed write, oldest first
    rpc,        \* rpc[r]: reader r's position
    rnode,      \* rnode[r]: the node of r's load, retain or Ref
    rticket,    \* rticket[r]: the ticket read in BlockedReader::wait
    rblk,       \* rblk[r]: r holds a BlockedReader
    rkind,      \* rkind[r]: how r's Ref was obtained: "cur" or "retro"
    rfloor,     \* history: number of writes completed when r's read began
    seen,       \* seen[r]: <<v>>, the value r last read through its Ref, or <<>>
    rleft,      \* rleft[r]: read operations r may still start
    twHeld,     \* history: readers holding a Ref to current since try_write began
    twQuiet,    \* history: no reader has been active since try_write began
    rbase,      \* history: rbase[r] = <<n>>, the version current when r's wait began
    twStart,    \* history: current, previous and notifier when try_write began
    rlast,      \* history: rlast[r] = <<v>>, the newest value of r's earlier reads
    wzWakes     \* history: wakes issued on the node during this wait_until_zero

sharedVars == <<current, previous, notifier>>
nodeVars == <<data, rc, nalloc, freed>>
queueVars == <<garbage, pool>>
handleVars == <<wAlive, rAlive>>
writerVars == <<wpc, wval, wnew, wnewdata, wold, wzval, gval, wleft, kinds>>
readerVars == <<rpc, rnode, rticket, rblk, rkind, rfloor, seen, rleft>>
callVars == <<twHeld, twQuiet, rbase, twStart, rlast, wzWakes>>
vars == <<sharedVars, nodeVars, queueVars, handleVars, writerVars, readerVars, callVars>>

\* ------------------------------------------------------------ word layout
Word(p, l) == [ptr |-> p, lock |-> l]
\* curr_val | LOCKED
Locked(v) == Word(v.ptr, TRUE)
\* curr_val & PTR_MASK
PtrPart(v) == Word(v.ptr, FALSE)
ZeroCount == [w |-> 0, c |-> 0]

SeqSet(s) == {s[i] : i \in 1..Len(s)}

\* ---------------------------------------------------------------- RefCount
\* RefCount::retain: fetch_add(1) on the 32-bit word (a carry out of the count
\* field flips the WAITING bit).
RetainWord(x) ==
    IF x.c = COUNT_MASK THEN [w |-> 1 - x.w, c |-> 0]
    ELSE [w |-> x.w, c |-> x.c + 1]

\* RefCount::release: fetch_sub(1) on the 32-bit word (a borrow out of the
\* count field flips the WAITING bit and leaves the count at 2^31 - 1).
ReleaseWord(x) ==
    IF x.c = 0 THEN [w |-> 1 - x.w, c |-> COUNT_MASK]
    ELSE [w |-> x.w, c |-> x.c - 1]

\* Mutant of ReleaseWakes: every release that brings the count to zero wakes.
ReleaseWakesAlways(x) == x.c = 1

\* RefCount::release: the previous word was 1 | WAITING_BIT, so wake().
ReleaseWakes(x) == x.w = WAITING_BIT /\ x.c = 1

\* RefCount::count
Count(n) == rc[n].c

\* rt::wake_one on a node's RefCount word: the writer, if it sleeps there.
WakeOne(n) ==
    IF wpc = "wz_asleep" /\ wval.ptr = n THEN "wz_load" ELSE wpc

\* rt::wake_all on the notifier: every reader asleep in wait_ticket.
WakeAll == [r \in Readers |-> IF rpc[r] = "w_asleep" THEN "w_load" ELSE rpc[r]]

\* -------------------------------------------------------------- data of T
\* The writer's next step writes the data of node n (through &mut T).
WriterWrites(n) ==
    \/ wpc \in {"cow_store", "cow_f"} /\ wnew = n
    \/ wpc = "guard" /\ gval.ptr = n

\* What a read of node n's data through a shared reference may yield: the
\* stored value, or anything when the read races a write or the node is freed.
Readable(n) ==
    IF WriterWrites(n) \/ n \in freed THEN {data[n], TORN} ELSE {data[n]}

\* Number of handles holding the Arc<SharedState>.
ArcCount == (IF wAlive THEN 1 ELSE 0) + Cardinality({r \in Readers : rAlive[r]})

\* ----------------------------------------------------------------- history
\* Reader r holds a Ref.
LiveRef(r) == rpc[r] = "holding"
\* The writer holds an InPlaceGuard.
GuardLive == wpc \in {"guard", "guard_written"}
\* Writes whose new value has been published in current.
Published ==
    Len(kinds) + IF wpc \in {"cow_push", "cow_prev", "cow_notify", "cow_wake",
                             "gd_notify", "gd_wake"} THEN 1 ELSE 0
\* No reader holds a Ref or a BlockedReader or is inside an operation.
Quiescent == \A r \in Readers : rpc[r] = "idle" /\ ~rblk[r]
\* The writer is inside wait_until_zero, on the node of its curr_val.
InWaitUntilZero ==
    wpc \in {"wz_load", "wz_cas", "wz_recheck", "wz_futex", "wz_asleep"}

\* A wake on node n is counted while the writer's wait_until_zero on n runs.
WakeCounted(n) ==
    /\ wzWakes' = IF InWaitUntilZero /\ wval.ptr = n THEN wzWakes + 1 ELSE wzWakes
    /\ UNCHANGED <<twHeld, twQuiet, rbase, twStart, rlast>>
\* The history of a try_write call is dropped when the call's result is used.
NoTryWrite == [cur |-> Word(NULL, FALSE), prev |-> NULL, note |-> 0, locked |-> FALSE]
TryWriteForgotten ==
    /\ twHeld' = {} /\ twQuiet' = FALSE /\ twStart' = NoTryWrite
    /\ UNCHANGED <<rbase, rlast, wzWakes>>

\* ---------------------------------------------------------------- initial
\* The locals of the writer and of the readers before any operation.
InitLocals ==
    /\ wAlive = TRUE
    /\ wpc = "idle"
    /\ wval = Word(NULL, FALSE)
    /\ wnew = NULL
    /\ wnewdata = 0
    /\ wold = NULL
    /\ wzval = ZeroCount
    /\ gval = Word(NULL, FALSE)
    /\ rpc = [r \in Readers |-> "idle"]
    /\ rnode = [r \in Readers |-> NULL]
    /\ rticket = [r \in Readers |-> 0]
    /\ rblk = [r \in Readers |-> FALSE]
    /\ rkind = [r \in Readers |-> "none"]
    /\ rfloor = [r \in Readers |-> 0]
    /\ seen = [r \in Readers |-> <<>>]
    /\ twHeld = {}
    /\ twQuiet = FALSE
    /\ rbase = [r \in Readers |-> <<>>]
    /\ twStart = NoTryWrite
    /\ rlast = [r \in Readers |-> <<>>]
    /\ wzWakes = 0

\* RetroCell::new(0): one node, published in current; one Reader.
Init ==
    /\ InitLocals
    /\ current = Word(1, FALSE)
    /\ previous = NULL
    /\ notifier = 0
    /\ data = [n \in Nodes |-> 0]
    /\ rc = [n \in Nodes |-> ZeroCount]
    /\ nalloc = 1
    /\ freed = {}
    /\ garbage = <<>>
    /\ pool = <<>>
    /\ kinds = <<>>
    /\ rAlive = [r \in Readers |-> r = 1]
    /\ wleft = MaxWrites
    /\ rleft = [r \in Readers |-> IF r = 1 THEN MaxReads ELSE 0]

\* RetroCell::new(0), then two write_cow calls with no reader active, then
\* the Reader cloned for every reader thread.
InitReaders ==
    /\ InitLocals
    /\ current = Word(3, FALSE)
    /\ previous = 2
    /\ notifier = 2
    /\ data = [n \in Nodes |-> IF n \in 1..3 THEN n - 1 ELSE 0]
    /\ rc = [n \in Nodes |-> ZeroCount]
    /\ nalloc = 3
    /\ freed = {}
    /\ garbage = <<1, 2>>
    /\ pool = <<>>
    /\ kinds = <<"cow", "cow">>
    /\ rAlive = [r \in Readers |-> TRUE]
    /\ wleft = MaxWritesReaders
    /\ rleft = [r \in Readers |-> MaxReadsReaders]

\* RetroCell::new(0), then two write_cow calls with no reader active; one
\* Reader.
InitFair ==
    /\ InitLocals
    /\ current = Word(3, FALSE)
    /\ previous = 2
    /\ notifier = 2
    /\ data = [n \in Nodes |-> IF n \in 1..3 THEN n - 1 ELSE 0]
    /\ rc = [n \in Nodes |-> ZeroCount]
    /\ nalloc = 3
    /\ freed = {}
    /\ garbage = <<1, 2>>
    /\ pool = <<>>
    /\ kinds = <<"cow", "cow">>
    /\ rAlive = [r \in Readers |-> r = 1]
    /\ wleft = MaxWritesFair
    /\ rleft = [r \in Readers |-> IF r = 1 THEN MaxReadsFair ELSE 0]

\* RetroCell::new(0), then two write_cow calls with no reader active; one
\* Reader, which may read more than once.
\* RetroCell::new(0); then 2^32 - 2 try_write calls were rolled back (a
\* Reader clone, since dropped, retained the node between the count check and
\* the lock each time), so no write has completed and the ticket is two
\* advances from wrapping.
InitWrap ==
    /\ InitLocals
    /\ current = Word(1, FALSE)
    /\ previous = NULL
    /\ notifier = TicketTop - 1
    /\ data = [n \in Nodes |-> 0]
    /\ rc = [n \in Nodes |-> ZeroCount]
    /\ nalloc = 1
    /\ freed = {}
    /\ garbage = <<>>
    /\ pool = <<>>
    /\ kinds = <<>>
    /\ rAlive = [r \in Readers |-> r = 1]
    /\ wleft = MaxWritesWrap
    /\ rleft = [r \in Readers |-> IF r = 1 THEN MaxReadsWrap ELSE 0]

InitTwice ==
    /\ InitLocals
    /\ current = Word(3, FALSE)
    /\ previous = 2
    /\ notifier = 2
    /\ data = [n \in Nodes |-> IF n \in 1..3 THEN n - 1 ELSE 0]
    /\ rc = [n \in Nodes |-> ZeroCount]
    /\ nalloc = 3
    /\ freed = {}
    /\ garbage = <<1, 2>>
    /\ pool = <<>>
    /\ kinds = <<"cow", "cow">>
    /\ rAlive = [r \in Readers |-> r = 1]
    /\ wleft = MaxWritesTwice
    /\ rleft = [r \in Readers |-> IF r = 1 THEN MaxReadsTwice ELSE 0]

\* ------------------------------------------------------------------ reader
\* Reader::try_read is called (Reader::read starts the same way).
StartTryRead(r) ==
    /\ rAlive[r] /\ rpc[r] = "idle" /\ ~rblk[r] /\ rleft[r] > 0
    /\ rpc' = [rpc EXCEPT ![r] = "tr_load"]
    /\ rleft' = [rleft EXCEPT ![r] = @ - 1]
    /\ rfloor' = [rfloor EXCEPT ![r] = Len(kinds)]
    /\ twQuiet' = FALSE
    /\ UNCHANGED <<sharedVars, nodeVars, queueVars, handleVars, writerVars>>
    /\ UNCHANGED <<rnode, rticket, rblk, rkind, seen, twHeld, rbase, twStart, rlast, wzWakes>>

\* try_read: load current; Blocked when the lock bit is set.
TryReadLoad(r) ==
    /\ rpc[r] = "tr_load"
    /\ IF current.lock
       THEN /\ rpc' = [rpc EXCEPT ![r] = "idle"]
            /\ rblk' = [rblk EXCEPT ![r] = TRUE]
            /\ rfloor' = [rfloor EXCEPT ![r] = 0]
            /\ UNCHANGED rnode
       ELSE /\ rpc' = [rpc EXCEPT ![r] = "tr_retain"]
            /\ rnode' = [rnode EXCEPT ![r] = current.ptr]
            /\ UNCHANGED <<rblk, rfloor>>
    /\ UNCHANGED <<sharedVars, nodeVars, queueVars, handleVars, writerVars>>
    /\ UNCHANGED <<rticket, rkind, seen, rleft>>
    /\ UNCHANGED callVars

\* node.reader_count.retain() of try_read (to = "tr_validate"), of wait
\* (to = "w_validate") and of read_retro (to = "holding").
RetainStep(r, from, to) ==
    /\ rpc[r] = from
    /\ rc' = [rc EXCEPT ![rnode[r]] = RetainWord(@)]
    /\ rpc' = [rpc EXCEPT ![r] = to]
    /\ rkind' = [rkind EXCEPT ![r] = IF to = "holding" THEN "retro" ELSE @]
    /\ UNCHANGED <<sharedVars, data, nalloc, freed, queueVars, handleVars, writerVars>>
    /\ UNCHANGED <<rnode, rticket, rblk, rfloor, seen, rleft>>
    /\ UNCHANGED callVars

\* Mutant of ValidateStep: the validation compares the pointer part only.
ValidatePointerOnly(r, from, fail) ==
    /\ rpc[r] = from
    /\ IF current.ptr = rnode[r]
       THEN /\ rpc' = [rpc EXCEPT ![r] = "holding"]
            /\ rkind' = [rkind EXCEPT ![r] = "cur"]
       ELSE /\ rpc' = [rpc EXCEPT ![r] = fail]
            /\ UNCHANGED rkind
    /\ UNCHANGED <<sharedVars, nodeVars, queueVars, handleVars, writerVars>>
    /\ UNCHANGED <<rnode, rticket, rblk, rfloor, seen, rleft>>
    /\ UNCHANGED callVars

\* Mutant of ValidateStep: the optimistic retain is taken for a Ref without
\* looking at current again.
ValidateSkipped(r, from, fail) ==
    /\ rpc[r] = from
    /\ rpc' = [rpc EXCEPT ![r] = "holding"]
    /\ rkind' = [rkind EXCEPT ![r] = "cur"]
    /\ UNCHANGED <<sharedVars, nodeVars, queueVars, handleVars, writerVars>>
    /\ UNCHANGED <<rnode, rticket, rblk, rfloor, seen, rleft>>
    /\ UNCHANGED callVars

\* The validating load of try_read and of wait: Success (a Ref) when current
\* is still the word loaded first, otherwise release and retry.
ValidateStep(r, from, fail) ==
    /\ rpc[r] = from
    /\ IF current = Word(rnode[r], FALSE)
       THEN /\ rpc' = [rpc EXCEPT ![r] = "holding"]
            /\ rkind' = [rkind EXCEPT ![r] = "cur"]
       ELSE /\ rpc' = [rpc EXCEPT ![r] = fail]
            /\ UNCHANGED rkind
    /\ UNCHANGED <<sharedVars, nodeVars, queueVars, handleVars, writerVars>>
    /\ UNCHANGED <<rnode, rticket, rblk, rfloor, seen, rleft>>
    /\ UNCHANGED callVars

\* RefCount::release: the fetch_sub; the wake, when due, is the next step.
\* back is where the reader continues: the retry of try_read or wait, or idle
\* after a Ref's drop.
ReleaseStep(r, from, wake, back) ==
    /\ rpc[r] = from
    /\ rc' = [rc EXCEPT ![rnode[r]] = ReleaseWord(@)]
    /\ IF ReleaseWakes(rc[rnode[r]])
       THEN /\ rpc' = [rpc EXCEPT ![r] = wake]
            /\ UNCHANGED rnode
       ELSE /\ rpc' = [rpc EXCEPT ![r] = back]
            /\ rnode' = [rnode EXCEPT ![r] = NULL]
    /\ rkind' = [rkind EXCEPT ![r] = "none"]
    /\ seen' = [seen EXCEPT ![r] = <<>>]
    /\ rfloor' = [rfloor EXCEPT ![r] = IF back = "idle" THEN 0 ELSE @]
    /\ rbase' = [rbase EXCEPT ![r] = IF back = "idle" THEN <<>> ELSE @]
    /\ twHeld' = twHeld \ {r}
    /\ rlast' = IF from = "holding" /\ rkind[r] = "cur" /\ seen[r] # <<>> /\ rleft[r] > 0
                THEN [rlast EXCEPT ![r] =
                        IF @ = <<>> THEN seen[r]
                        ELSE IF seen[r][1] > @[1] THEN seen[r] ELSE @]
                ELSE rlast
    /\ UNCHANGED <<twQuiet, twStart, wzWakes>>
    /\ UNCHANGED <<sharedVars, data, nalloc, freed, queueVars, handleVars, writerVars>>
    /\ UNCHANGED <<rticket, rblk, rleft>>

\* Mutant of ReleaseWakeStep: the reader's wake also advances the notifier.
ReleaseWakeAdvances(r, from, back) ==
    /\ rpc[r] = from
    /\ wpc' = WakeOne(rnode[r])
    /\ notifier' = notifier + 1
    /\ rpc' = [rpc EXCEPT ![r] = back]
    /\ rnode' = [rnode EXCEPT ![r] = NULL]
    /\ UNCHANGED <<current, previous, nodeVars, queueVars, handleVars>>
    /\ UNCHANGED <<wval, wnew, wnewdata, wold, wzval, gval, wleft, kinds>>
    /\ UNCHANGED <<rticket, rblk, rkind, rfloor, seen, rleft>>
    /\ WakeCounted(rnode[r])

\* RefCount::wake after a release that found 1 | WAITING_BIT.
ReleaseWakeStep(r, from, back) ==
    /\ rpc[r] = from
    /\ wpc' = WakeOne(rnode[r])
    /\ rpc' = [rpc EXCEPT ![r] = back]
    /\ rnode' = [rnode EXCEPT ![r] = NULL]
    /\ UNCHANGED <<sharedVars, nodeVars, queueVars, handleVars>>
    /\ UNCHANGED <<wval, wnew, wnewdata, wold, wzval, gval, wleft, kinds>>
    /\ UNCHANGED <<rticket, rblk, rkind, rfloor, seen, rleft>>
    /\ WakeCounted(rnode[r])

TryReadRetain(r) == RetainStep(r, "tr_retain", "tr_validate")
TryReadValidate(r) == ValidateStep(r, "tr_validate", "tr_release")
TryReadRelease(r) == ReleaseStep(r, "tr_release", "tr_wake", "tr_load")
TryReadWake(r) == ReleaseWakeStep(r, "tr_wake", "tr_load")

\* BlockedReader::wait is called (it consumes the BlockedReader).
StartWait(r) ==
    /\ rpc[r] = "idle" /\ rblk[r]
    /\ rpc' = [rpc EXCEPT ![r] = "w_load"]
    /\ rblk' = [rblk EXCEPT ![r] = FALSE]
    /\ rfloor' = [rfloor EXCEPT ![r] = Len(kinds)]
    /\ rbase' = [rbase EXCEPT ![r] = <<Published + IF GuardLive THEN 1 ELSE 0>>]
    /\ UNCHANGED <<twHeld, twQuiet, twStart, rlast, wzWakes>>
    /\ UNCHANGED <<sharedVars, nodeVars, queueVars, handleVars, writerVars>>
    /\ UNCHANGED <<rnode, rticket, rkind, seen, rleft>>

\* wait: the load at the head of the loop.
WaitLoad(r) ==
    /\ rpc[r] = "w_load"
    /\ IF current.lock
       THEN /\ rpc' = [rpc EXCEPT ![r] = "w_ticket"]
            /\ UNCHANGED rnode
       ELSE /\ rpc' = [rpc EXCEPT ![r] = "w_retain"]
            /\ rnode' = [rnode EXCEPT ![r] = current.ptr]
    /\ UNCHANGED <<sharedVars, nodeVars, queueVars, handleVars, writerVars>>
    /\ UNCHANGED <<rticket, rblk, rkind, rfloor, seen, rleft>>
    /\ UNCHANGED callVars

WaitRetain(r) == RetainStep(r, "w_retain", "w_validate")
WaitValidate(r) == ValidateStep(r, "w_validate", "w_release")
WaitRelease(r) == ReleaseStep(r, "w_release", "w_wake", "w_load")
WaitWake(r) == ReleaseWakeStep(r, "w_wake", "w_load")

\* wait: Notifier::ticket.
WaitTicket(r) ==
    /\ rpc[r] = "w_ticket"
    /\ rticket' = [rticket EXCEPT ![r] = notifier]
    /\ rpc' = [rpc EXCEPT ![r] = "w_recheck"]
    /\ UNCHANGED <<sharedVars, nodeVars, queueVars, handleVars, writerVars>>
    /\ UNCHANGED <<rnode, rblk, rkind, rfloor, seen, rleft>>
    /\ UNCHANGED callVars

\* wait: the re-check of current after the ticket.
WaitRecheck(r) ==
    /\ rpc[r] = "w_recheck"
    /\ IF current.lock
       THEN /\ rpc' = [rpc EXCEPT ![r] = "w_futex"]
            /\ UNCHANGED rticket
       ELSE /\ rpc' = [rpc EXCEPT ![r] = "w_load"]
            /\ rticket' = [rticket EXCEPT ![r] = 0]
    /\ UNCHANGED <<sharedVars, nodeVars, queueVars, handleVars, writerVars>>
    /\ UNCHANGED <<rnode, rblk, rkind, rfloor, seen, rleft>>
    /\ UNCHANGED callVars

\* Mutant of WaitFutex: the wait sleeps without comparing the ticket.
WaitFutexUnconditional(r) ==
    /\ rpc[r] = "w_futex"
    /\ rpc' = [rpc EXCEPT ![r] = "w_asleep"]
    /\ rticket' = [rticket EXCEPT ![r] = 0]
    /\ UNCHANGED <<sharedVars, nodeVars, queueVars, handleVars, writerVars>>
    /\ UNCHANGED <<rnode, rblk, rkind, rfloor, seen, rleft>>
    /\ UNCHANGED callVars

\* wait: Notifier::wait_ticket, a futex wait: sleep only if the word still
\* equals the ticket.
WaitFutex(r) ==
    /\ rpc[r] = "w_futex"
    /\ rpc' = [rpc EXCEPT ![r] = IF notifier = rticket[r] THEN "w_asleep" ELSE "w_load"]
    /\ rticket' = [rticket EXCEPT ![r] = 0]
    /\ UNCHANGED <<sharedVars, nodeVars, queueVars, handleVars, writerVars>>
    /\ UNCHANGED <<rnode, rblk, rkind, rfloor, seen, rleft>>
    /\ UNCHANGED callVars

\* Reader::read_retro or BlockedReader::read_retro is called.
StartReadRetro(r) ==
    /\ rAlive[r] /\ rpc[r] = "idle" /\ (rblk[r] \/ rleft[r] > 0)
    /\ rpc' = [rpc EXCEPT ![r] = "rr_load"]
    /\ rleft' = [rleft EXCEPT ![r] = IF rblk[r] THEN @ ELSE @ - 1]
    /\ rfloor' = [rfloor EXCEPT ![r] = Len(kinds)]
    /\ twQuiet' = FALSE
    /\ UNCHANGED <<sharedVars, nodeVars, queueVars, handleVars, writerVars>>
    /\ UNCHANGED <<rnode, rticket, rblk, rkind, seen, twHeld, rbase, twStart, rlast, wzWakes>>

\* read_retro: load previous; None when null.
RetroLoad(r) ==
    /\ rpc[r] = "rr_load"
    /\ IF previous = NULL
       THEN /\ rpc' = [rpc EXCEPT ![r] = "idle"]
            /\ rfloor' = [rfloor EXCEPT ![r] = 0]
            /\ UNCHANGED rnode
       ELSE /\ rpc' = [rpc EXCEPT ![r] = "rr_retain"]
            /\ rnode' = [rnode EXCEPT ![r] = previous]
            /\ UNCHANGED rfloor
    /\ UNCHANGED <<sharedVars, nodeVars, queueVars, handleVars, writerVars>>
    /\ UNCHANGED <<rticket, rblk, rkind, seen, rleft>>
    /\ UNCHANGED callVars

RetroRetain(r) == RetainStep(r, "rr_retain", "holding")

\* Deref for Ref: the reader reads the value behind its Ref.
DerefRef(r) ==
    /\ rpc[r] = "holding"
    /\ \E v \in Readable(rnode[r]) :
          /\ seen[r] # <<v>>
          /\ seen' = [seen EXCEPT ![r] = <<v>>]
    /\ UNCHANGED <<sharedVars, nodeVars, queueVars, handleVars, writerVars>>
    /\ UNCHANGED <<rpc, rnode, rticket, rblk, rkind, rfloor, rleft>>
    /\ UNCHANGED callVars

\* Drop for Ref.
DropRef(r) == ReleaseStep(r, "holding", "d_wake", "idle")
DropRefWake(r) == ReleaseWakeStep(r, "d_wake", "idle")

\* The BlockedReader is dropped without waiting.
DropBlocked(r) ==
    /\ rpc[r] = "idle" /\ rblk[r]
    /\ rblk' = [rblk EXCEPT ![r] = FALSE]
    /\ UNCHANGED <<sharedVars, nodeVars, queueVars, handleVars, writerVars>>
    /\ UNCHANGED <<rpc, rnode, rticket, rkind, rfloor, seen, rleft>>
    /\ UNCHANGED callVars

\* Mutant of FreedByLastArc: dropping any handle frees the current node.
FreedByAnyDrop == {current.ptr}

\* Drop for SharedState, run by whoever drops the last Arc: free current.
FreedByLastArc == IF ArcCount = 1 THEN {current.ptr} ELSE {}

\* The reader handle is dropped (no Ref or BlockedReader borrows it).
ReaderDrop(r) ==
    /\ rAlive[r] /\ rpc[r] = "idle" /\ ~rblk[r]
    /\ rAlive' = [rAlive EXCEPT ![r] = FALSE]
    /\ freed' = freed \cup FreedByLastArc
    /\ UNCHANGED <<sharedVars, data, rc, nalloc, queueVars, wAlive, writerVars, readerVars>>
    /\ UNCHANGED callVars

ReaderStep(r) ==
    \/ StartTryRead(r) \/ TryReadLoad(r) \/ TryReadRetain(r)
    \/ TryReadValidate(r) \/ TryReadRelease(r) \/ TryReadWake(r)
    \/ StartWait(r) \/ WaitLoad(r) \/ WaitRetain(r) \/ WaitValidate(r)
    \/ WaitRelease(r) \/ WaitWake(r) \/ WaitTicket(r) \/ WaitRecheck(r)
    \/ WaitFutex(r)
    \/ StartReadRetro(r) \/ RetroLoad(r) \/ RetroRetain(r)
    \/ DerefRef(r) \/ DropRef(r) \/ DropRefWake(r) \/ DropBlocked(r)
    \/ ReaderDrop(r)

\* ------------------------------------------------------------------ writer
WriterLocalsUnchanged == UNCHANGED <<wval, wnew, wnewdata, wold, wzval, gval, wleft, kinds>>

\* RetroCell::try_write is called.
StartTryWrite ==
    /\ wAlive /\ wpc = "idle" /\ wleft > 0
    /\ wpc' = "tw_gc"
    /\ wleft' = wleft - 1
    /\ twHeld' = {r \in Readers : LiveRef(r) /\ rnode[r] = current.ptr}
    /\ twQuiet' = Quiescent
    /\ twStart' = [cur |-> current, prev |-> previous, note |-> notifier, locked |-> FALSE]
    /\ UNCHANGED <<rbase, rlast, wzWakes>>
    /\ UNCHANGED <<sharedVars, nodeVars, queueVars, handleVars, readerVars>>
    /\ UNCHANGED <<wval, wnew, wnewdata, wold, wzval, gval, kinds>>

\* RetroCell::write_cow is called.
StartWriteCow ==
    /\ wAlive /\ wpc = "idle" /\ wleft > 0
    /\ wpc' = "cow_gc"
    /\ wleft' = wleft - 1
    /\ UNCHANGED <<sharedVars, nodeVars, queueVars, handleVars, readerVars>>
    /\ UNCHANGED <<wval, wnew, wnewdata, wold, wzval, gval, kinds>>
    /\ UNCHANGED callVars

\* RetroCell::write_in_place is called.
StartWriteInPlace ==
    /\ wAlive /\ wpc = "idle" /\ wleft > 0
    /\ wpc' = "fip_gc"
    /\ wleft' = wleft - 1
    /\ UNCHANGED <<sharedVars, nodeVars, queueVars, handleVars, readerVars>>
    /\ UNCHANGED <<wval, wnew, wnewdata, wold, wzval, gval, kinds>>
    /\ UNCHANGED callVars

\* Mutant of Recyclable: the loop condition written as len >= 1.
RecyclableAnyLength == garbage # <<>> /\ rc[Head(garbage)].c = 0

\* Mutant of Recyclable: the front entry is recycled whatever its count.
RecyclableIgnoringCount == Len(garbage) > 1

\* Mutant of Recyclable: the loop keeps two entries queued.
RecyclableKeepsTwo == Len(garbage) > 2 /\ Count(Head(garbage)) = 0

\* collect_garbage may recycle the front entry: more than one entry is queued
\* and the front node's count reads zero.
Recyclable == Len(garbage) > 1 /\ Count(Head(garbage)) = 0

\* Mutant of CollectGarbage: the loop waits for the front node's readers
\* instead of leaving it queued.
CollectGarbageWaits(from, to) ==
    /\ wpc = from
    /\ IF Len(garbage) > 1
       THEN /\ Count(Head(garbage)) = 0
            /\ garbage' = Tail(garbage)
            /\ pool' = Append(pool, Head(garbage))
            /\ UNCHANGED wpc
       ELSE /\ wpc' = to
            /\ UNCHANGED <<garbage, pool>>
    /\ UNCHANGED <<sharedVars, nodeVars, handleVars, readerVars>>
    /\ WriterLocalsUnchanged
    /\ UNCHANGED callVars

\* Mutant of CollectGarbage: a counted front node is skipped and the entry
\* behind it is recycled.
CollectGarbageSkipsBusy(from, to) ==
    /\ wpc = from
    /\ IF Recyclable
       THEN /\ garbage' = Tail(garbage)
            /\ pool' = Append(pool, Head(garbage))
            /\ UNCHANGED wpc
       ELSE IF Len(garbage) > 2 /\ Count(garbage[2]) = 0
       THEN /\ garbage' = <<Head(garbage)>> \o Tail(Tail(garbage))
            /\ pool' = Append(pool, garbage[2])
            /\ UNCHANGED wpc
       ELSE /\ wpc' = to
            /\ UNCHANGED <<garbage, pool>>
    /\ UNCHANGED <<sharedVars, nodeVars, handleVars, readerVars>>
    /\ WriterLocalsUnchanged
    /\ UNCHANGED callVars

\* One iteration of collect_garbage's loop; to is where the caller continues
\* when the loop ends.
CollectGarbage(from, to) ==
    /\ wpc = from
    /\ IF Recyclable
       THEN /\ garbage' = Tail(garbage)
            /\ pool' = Append(pool, Head(garbage))
            /\ UNCHANGED wpc
       ELSE /\ wpc' = to
            /\ UNCHANGED <<garbage, pool>>
    /\ UNCHANGED <<sharedVars, nodeVars, handleVars, readerVars>>
    /\ WriterLocalsUnchanged
    /\ UNCHANGED callVars

TryWriteGc == CollectGarbage("tw_gc", "tw_count")
WriteCowGc == CollectGarbage("cow_gc", "cow_clone")
WriteInPlaceGc == CollectGarbage("fip_gc", "fip_swap")

\* try_write: load current and read the node's count; Congested when readers
\* are present.
TryWriteCount ==
    /\ wpc = "tw_count"
    /\ IF Count(current.ptr) = 0
       THEN /\ wpc' = "tw_swap"
            /\ wval' = current
       ELSE /\ wpc' = "congested"
            /\ UNCHANGED wval
    /\ UNCHANGED <<sharedVars, nodeVars, queueVars, handleVars, readerVars>>
    /\ UNCHANGED <<wnew, wnewdata, wold, wzval, gval, wleft, kinds>>
    /\ UNCHANGED callVars

\* try_write: swap curr_val | LOCKED into current.
TryWriteSwap ==
    /\ wpc = "tw_swap"
    /\ current' = Locked(wval)
    /\ wpc' = "tw_recount"
    /\ twStart' = [twStart EXCEPT !.locked = TRUE]
    /\ UNCHANGED <<previous, notifier, nodeVars, queueVars, handleVars, readerVars>>
    /\ WriterLocalsUnchanged
    /\ UNCHANGED <<twHeld, twQuiet, rbase, rlast, wzWakes>>

\* try_write: the second read of the count: InPlace, or roll back.
TryWriteRecount ==
    /\ wpc = "tw_recount"
    /\ IF Count(wval.ptr) = 0
       THEN /\ wpc' = "guard"
            /\ gval' = Locked(wval)
            /\ wval' = Word(NULL, FALSE)
       ELSE /\ wpc' = "tw_rollback"
            /\ UNCHANGED <<gval, wval>>
    /\ UNCHANGED <<sharedVars, nodeVars, queueVars, handleVars, readerVars>>
    /\ UNCHANGED <<wnew, wnewdata, wold, wzval, wleft, kinds>>
    /\ UNCHANGED callVars

\* Mutant of TryWriteRollback: the rollback stores the locked word.
TryWriteRollbackKeepsLock ==
    /\ wpc = "tw_rollback"
    /\ current' = Locked(wval)
    /\ wval' = Word(NULL, FALSE)
    /\ wpc' = "tw_notify"
    /\ UNCHANGED <<previous, notifier, nodeVars, queueVars, handleVars, readerVars>>
    /\ UNCHANGED <<wnew, wnewdata, wold, wzval, gval, wleft, kinds>>
    /\ UNCHANGED callVars

\* try_write: store curr_val back into current.
TryWriteRollback ==
    /\ wpc = "tw_rollback"
    /\ current' = wval
    /\ wval' = Word(NULL, FALSE)
    /\ wpc' = "tw_notify"
    /\ UNCHANGED <<previous, notifier, nodeVars, queueVars, handleVars, readerVars>>
    /\ UNCHANGED <<wnew, wnewdata, wold, wzval, gval, wleft, kinds>>
    /\ UNCHANGED callVars

\* Mutant of Advance: the ticket is advanced by two.
AdvanceByTwo(from, to) ==
    /\ wpc = from
    /\ notifier' = TicketNext(TicketNext(notifier))
    /\ wpc' = to
    /\ UNCHANGED <<current, previous, nodeVars, queueVars, handleVars, readerVars>>
    /\ WriterLocalsUnchanged
    /\ UNCHANGED callVars

\* Notifier::advance_and_wake, first half: fetch_add(1) on the AtomicU32,
\* which wraps.
Advance(from, to) ==
    /\ wpc = from
    /\ notifier' = TicketNext(notifier)
    /\ wpc' = to
    /\ UNCHANGED <<current, previous, nodeVars, queueVars, handleVars, readerVars>>
    /\ WriterLocalsUnchanged
    /\ UNCHANGED callVars

\* Notifier::advance_and_wake, second half: wake_all. A write that ends here
\* (kind is "cow" or "inplace") is complete.
Wake(from, to, kind) ==
    /\ wpc = from
    /\ rpc' = WakeAll
    /\ wpc' = to
    /\ kinds' = IF kind = "none" THEN kinds ELSE Append(kinds, kind)
    /\ UNCHANGED <<sharedVars, nodeVars, queueVars, handleVars>>
    /\ UNCHANGED <<wval, wnew, wnewdata, wold, wzval, gval, wleft>>
    /\ UNCHANGED <<rnode, rticket, rblk, rkind, rfloor, seen, rleft>>
    /\ UNCHANGED callVars

\* Mutant of TryWriteNotify: the rollback does not advance the notifier.
TryWriteNotifySkipped ==
    /\ wpc = "tw_notify"
    /\ wpc' = "tw_wake"
    /\ UNCHANGED <<sharedVars, nodeVars, queueVars, handleVars, readerVars>>
    /\ WriterLocalsUnchanged
    /\ UNCHANGED callVars

\* try_write: notifier.advance_and_wake() after the rollback.
TryWriteNotify == Advance("tw_notify", "tw_wake")
TryWriteWake == Wake("tw_wake", "congested", "none")

\* The CongestedWriter is used for perform_cow.
ChoosePerformCow ==
    /\ wpc = "congested"
    /\ wpc' = "cow_clone"
    /\ TryWriteForgotten
    /\ UNCHANGED <<sharedVars, nodeVars, queueVars, handleVars, readerVars>>
    /\ WriterLocalsUnchanged

\* The CongestedWriter is used for force_in_place.
ChooseForceInPlace ==
    /\ wpc = "congested"
    /\ wpc' = "fip_swap"
    /\ TryWriteForgotten
    /\ UNCHANGED <<sharedVars, nodeVars, queueVars, handleVars, readerVars>>
    /\ WriterLocalsUnchanged

\* The CongestedWriter is dropped unused.
DropCongested ==
    /\ wpc = "congested"
    /\ wpc' = "idle"
    /\ TryWriteForgotten
    /\ UNCHANGED <<sharedVars, nodeVars, queueVars, handleVars, readerVars>>
    /\ WriterLocalsUnchanged

\* force_in_place: load current and swap curr_val | LOCKED into it.
ForceInPlaceSwap ==
    /\ wpc = "fip_swap"
    /\ wval' = current
    /\ current' = Locked(current)
    /\ wpc' = "wz_load"
    /\ UNCHANGED <<previous, notifier, nodeVars, queueVars, handleVars, readerVars>>
    /\ UNCHANGED <<wnew, wnewdata, wold, wzval, gval, wleft, kinds>>
    /\ UNCHANGED callVars

\* force_in_place: wait_until_zero has returned; the guard is handed out.
GuardFromForce ==
    /\ wpc' = "guard"
    /\ gval' = wval
    /\ wval' = Word(NULL, FALSE)
    /\ wzval' = ZeroCount
    /\ wzWakes' = 0

\* wait_until_zero: the load at the head of the loop.
WaitZeroLoad ==
    /\ wpc = "wz_load"
    /\ IF Count(wval.ptr) = 0
       THEN /\ GuardFromForce
            /\ UNCHANGED rc
       ELSE /\ wpc' = IF rc[wval.ptr].w = WAITING_BIT THEN "wz_recheck" ELSE "wz_cas"
            /\ wzval' = rc[wval.ptr]
            /\ UNCHANGED <<rc, gval, wval, wzWakes>>
    /\ UNCHANGED <<sharedVars, data, nalloc, freed, queueVars, handleVars, readerVars>>
    /\ UNCHANGED <<wnew, wnewdata, wold, wleft, kinds>>
    /\ UNCHANGED <<twHeld, twQuiet, rbase, twStart, rlast>>

\* wait_until_zero: compare_exchange_weak(val, val | WAITING_BIT); it may fail
\* spuriously, and fails when the word has changed.
WaitZeroCas ==
    /\ wpc = "wz_cas"
    /\ \/ /\ rc[wval.ptr] = wzval
          /\ rc' = [rc EXCEPT ![wval.ptr] = [w |-> WAITING_BIT, c |-> @.c]]
          /\ wpc' = "wz_recheck"
       \/ /\ wpc' = "wz_load"
          /\ UNCHANGED rc
    /\ UNCHANGED <<sharedVars, data, nalloc, freed, queueVars, handleVars, readerVars>>
    /\ WriterLocalsUnchanged
    /\ UNCHANGED callVars

\* wait_until_zero: the re-check; then spin again (spin_count < 20) or go on
\* to the futex wait.
WaitZeroRecheck ==
    /\ wpc = "wz_recheck"
    /\ IF Count(wval.ptr) = 0
       THEN GuardFromForce
       ELSE /\ \/ wpc' = "wz_load"
               \/ wpc' = "wz_futex"
            /\ wzval' = rc[wval.ptr]
            /\ UNCHANGED <<gval, wval, wzWakes>>
    /\ UNCHANGED <<sharedVars, nodeVars, queueVars, handleVars, readerVars>>
    /\ UNCHANGED <<wnew, wnewdata, wold, wleft, kinds>>
    /\ UNCHANGED <<twHeld, twQuiet, rbase, twStart, rlast>>

\* wait_until_zero: rt::wait(&state, val_now | WAITING_BIT): sleep only if
\* the word still has that value.
WaitZeroFutex ==
    /\ wpc = "wz_futex"
    /\ wpc' = IF rc[wval.ptr] = [w |-> WAITING_BIT, c |-> wzval.c]
              THEN "wz_asleep" ELSE "wz_load"
    /\ UNCHANGED <<sharedVars, nodeVars, queueVars, handleVars, readerVars>>
    /\ WriterLocalsUnchanged
    /\ UNCHANGED callVars

\* DerefMut for InPlaceGuard: the caller's mutation, here an increment.
GuardWrite ==
    /\ wpc = "guard"
    /\ data' = [data EXCEPT ![gval.ptr] = @ + 1]
    /\ wpc' = "guard_written"
    /\ TryWriteForgotten
    /\ UNCHANGED <<sharedVars, rc, nalloc, freed, queueVars, handleVars, readerVars>>
    /\ WriterLocalsUnchanged

\* Mutant of GuardDropStore: the guard's drop also records the node as the
\* previous version.
GuardDropStoresPrevious ==
    /\ wpc = "guard_written"
    /\ current' = PtrPart(gval)
    /\ previous' = gval.ptr
    /\ gval' = Word(NULL, FALSE)
    /\ wpc' = "gd_notify"
    /\ UNCHANGED <<notifier, nodeVars, queueVars, handleVars, readerVars>>
    /\ UNCHANGED <<wval, wnew, wnewdata, wold, wzval, wleft, kinds>>
    /\ UNCHANGED callVars

\* Drop for InPlaceGuard: store locked_val & PTR_MASK into current.
GuardDropStore ==
    /\ wpc = "guard_written"
    /\ current' = PtrPart(gval)
    /\ gval' = Word(NULL, FALSE)
    /\ wpc' = "gd_notify"
    /\ UNCHANGED <<previous, notifier, nodeVars, queueVars, handleVars, readerVars>>
    /\ UNCHANGED <<wval, wnew, wnewdata, wold, wzval, wleft, kinds>>
    /\ UNCHANGED callVars

GuardDropNotify == Advance("gd_notify", "gd_wake")
GuardDropWake == Wake("gd_wake", "idle", "inplace")

\* Mutant of CloneSource: the clone is taken from the previous version.
CloneSourcePrevious == IF previous # NULL THEN previous ELSE current.ptr

\* perform_cow: the node whose data is cloned: the pointer part of current.
CloneSource == current.ptr

\* perform_cow: load current, clone its data, and take a node: the top of the
\* pool, or a fresh Node::new(new_data).
CowClone ==
    /\ wpc = "cow_clone"
    /\ wnewdata' = data[CloneSource]
    /\ IF pool # <<>>
       THEN /\ wnew' = pool[Len(pool)]
            /\ pool' = SubSeq(pool, 1, Len(pool) - 1)
            /\ wpc' = "cow_store"
            /\ UNCHANGED <<data, rc, nalloc>>
       ELSE /\ wnew' = nalloc + 1
            /\ nalloc' = nalloc + 1
            /\ data' = [data EXCEPT ![nalloc + 1] = data[CloneSource]]
            /\ rc' = [rc EXCEPT ![nalloc + 1] = ZeroCount]
            /\ wpc' = "cow_f"
            /\ UNCHANGED pool
    /\ UNCHANGED <<sharedVars, freed, garbage, handleVars, readerVars>>
    /\ UNCHANGED <<wval, wold, wzval, gval, wleft, kinds>>
    /\ UNCHANGED callVars

\* perform_cow: *recycled_node.data.get() = new_data.
CowStore ==
    /\ wpc = "cow_store"
    /\ data' = [data EXCEPT ![wnew] = wnewdata]
    /\ wpc' = "cow_reset"
    /\ UNCHANGED <<sharedVars, rc, nalloc, freed, queueVars, handleVars, readerVars>>
    /\ WriterLocalsUnchanged
    /\ UNCHANGED callVars

\* perform_cow: recycled_node.reader_count.reset().
CowReset ==
    /\ wpc = "cow_reset"
    /\ rc' = [rc EXCEPT ![wnew] = ZeroCount]
    /\ wpc' = "cow_f"
    /\ UNCHANGED <<sharedVars, data, nalloc, freed, queueVars, handleVars, readerVars>>
    /\ WriterLocalsUnchanged
    /\ UNCHANGED callVars

\* perform_cow: f(new_node.data.get_mut()), here an increment.
CowApply ==
    /\ wpc = "cow_f"
    /\ data' = [data EXCEPT ![wnew] = @ + 1]
    /\ wnewdata' = 0
    /\ wpc' = "cow_swap"
    /\ UNCHANGED <<sharedVars, rc, nalloc, freed, queueVars, handleVars, readerVars>>
    /\ UNCHANGED <<wval, wnew, wold, wzval, gval, wleft, kinds>>
    /\ UNCHANGED callVars

\* Mutant of CowSwap: the swap puts back the node it found.
CowSwapSameNode ==
    /\ wpc = "cow_swap"
    /\ current' = Word(current.ptr, FALSE)
    /\ wold' = current.ptr
    /\ wnew' = NULL
    /\ wpc' = "cow_push"
    /\ UNCHANGED <<previous, notifier, nodeVars, queueVars, handleVars, readerVars>>
    /\ UNCHANGED <<wval, wnewdata, wzval, gval, wleft, kinds>>
    /\ UNCHANGED callVars

\* Mutant of CowSwap: the published word carries the lock bit.
CowSwapLocked ==
    /\ wpc = "cow_swap"
    /\ current' = Word(wnew, TRUE)
    /\ wold' = current.ptr
    /\ wnew' = NULL
    /\ wpc' = "cow_push"
    /\ UNCHANGED <<previous, notifier, nodeVars, queueVars, handleVars, readerVars>>
    /\ UNCHANGED <<wval, wnewdata, wzval, gval, wleft, kinds>>
    /\ UNCHANGED callVars

\* perform_cow: swap new_ptr into current; old_ptr is the pointer part of the
\* word it replaced.
CowSwap ==
    /\ wpc = "cow_swap"
    /\ current' = Word(wnew, FALSE)
    /\ wold' = current.ptr
    /\ wnew' = NULL
    /\ wpc' = "cow_push"
    /\ UNCHANGED <<previous, notifier, nodeVars, queueVars, handleVars, readerVars>>
    /\ UNCHANGED <<wval, wnewdata, wzval, gval, wleft, kinds>>
    /\ UNCHANGED callVars

\* Mutant of CowPush: the node just published is queued as garbage.
CowPushCurrent ==
    /\ wpc = "cow_push"
    /\ garbage' = Append(garbage, current.ptr)
    /\ wpc' = "cow_prev"
    /\ UNCHANGED <<sharedVars, nodeVars, pool, handleVars, readerVars>>
    /\ WriterLocalsUnchanged
    /\ UNCHANGED callVars

\* perform_cow: garbage.push_back(old_ptr).
CowPush ==
    /\ wpc = "cow_push"
    /\ garbage' = Append(garbage, wold)
    /\ wpc' = "cow_prev"
    /\ UNCHANGED <<sharedVars, nodeVars, pool, handleVars, readerVars>>
    /\ WriterLocalsUnchanged
    /\ UNCHANGED callVars

\* Mutant of CowPrevious: the new node is stored into previous.
CowPreviousStoresNew ==
    /\ wpc = "cow_prev"
    /\ previous' = current.ptr
    /\ wold' = NULL
    /\ wpc' = "cow_notify"
    /\ UNCHANGED <<current, notifier, nodeVars, queueVars, handleVars, readerVars>>
    /\ UNCHANGED <<wval, wnew, wnewdata, wzval, gval, wleft, kinds>>
    /\ UNCHANGED callVars

\* perform_cow: previous.store(old_ptr).
CowPrevious ==
    /\ wpc = "cow_prev"
    /\ previous' = wold
    /\ wold' = NULL
    /\ wpc' = "cow_notify"
    /\ UNCHANGED <<current, notifier, nodeVars, queueVars, handleVars, readerVars>>
    /\ UNCHANGED <<wval, wnew, wnewdata, wzval, gval, wleft, kinds>>
    /\ UNCHANGED callVars

CowNotify == Advance("cow_notify", "cow_wake")
CowWake == Wake("cow_wake", "idle", "cow")

\* Drop for RetroCell: collect_garbage, free every node left in garbage, then
\* the pool's nodes with the pool; the Arc is released.
WriterDrop ==
    /\ wAlive /\ wpc = "idle"
    /\ wAlive' = FALSE
    /\ freed' = freed \cup SeqSet(garbage) \cup SeqSet(pool) \cup FreedByLastArc
    /\ garbage' = <<>>
    /\ pool' = <<>>
    /\ UNCHANGED <<sharedVars, data, rc, nalloc, rAlive, writerVars, readerVars>>
    /\ UNCHANGED callVars

WriterStep ==
    \/ StartTryWrite \/ StartWriteCow \/ StartWriteInPlace
    \/ TryWriteGc \/ WriteCowGc \/ WriteInPlaceGc
    \/ TryWriteCount \/ TryWriteSwap \/ TryWriteRecount \/ TryWriteRollback
    \/ TryWriteNotify \/ TryWriteWake
    \/ ChoosePerformCow \/ ChooseForceInPlace \/ DropCongested
    \/ ForceInPlaceSwap \/ WaitZeroLoad \/ WaitZeroCas \/ WaitZeroRecheck
    \/ WaitZeroFutex
    \/ GuardWrite \/ GuardDropStore \/ GuardDropNotify \/ GuardDropWake
    \/ CowClone \/ CowStore \/ CowReset \/ CowApply \/ CowSwap \/ CowPush
    \/ CowPrevious \/ CowNotify \/ CowWake
    \/ WriterDrop

Next == WriterStep \/ \E r \in Readers : ReaderStep(r)

Spec == Init /\ [][Next]_vars
SpecReaders == InitReaders /\ [][Next]_vars
SpecTwice == InitTwice /\ [][Next]_vars
SpecWrap == InitWrap /\ [][Next]_vars

\* --------------------------------------------------------------- scheduling
\* The steps of reader r inside an operation, and the drop of its Ref: a
\* running thread is scheduled again, and every Ref is dropped in the end.
ReaderProgress(r) ==
    \/ TryReadLoad(r) \/ TryReadRetain(r)
    \/ TryReadValidate(r) \/ TryReadRelease(r) \/ TryReadWake(r)
    \/ WaitLoad(r) \/ WaitRetain(r) \/ WaitValidate(r)
    \/ WaitRelease(r) \/ WaitWake(r) \/ WaitTicket(r) \/ WaitRecheck(r)
    \/ WaitFutex(r)
    \/ RetroLoad(r) \/ RetroRetain(r)
    \/ DropRef(r) \/ DropRefWake(r)

\* The steps of the writer inside an operation, up to the drop of its guard.
WriterProgress ==
    \/ TryWriteGc \/ WriteCowGc \/ WriteInPlaceGc
    \/ TryWriteCount \/ TryWriteSwap \/ TryWriteRecount \/ TryWriteRollback
    \/ TryWriteNotify \/ TryWriteWake
    \/ ChoosePerformCow \/ ChooseForceInPlace \/ DropCongested
    \/ ForceInPlaceSwap \/ WaitZeroLoad \/ WaitZeroCas \/ WaitZeroRecheck
    \/ WaitZeroFutex
    \/ GuardWrite \/ GuardDropStore \/ GuardDropNotify \/ GuardDropWake
    \/ CowClone \/ CowStore \/ CowReset \/ CowApply \/ CowSwap \/ CowPush
    \/ CowPrevious \/ CowNotify \/ CowWake

\* Threads inside an operation keep running; compare_exchange_weak does not
\* fail spuriously forever; wait_until_zero spins at most 20 times before it
\* goes on to the futex wait.
Fairness ==
    /\ WF_vars(WriterProgress)
    /\ SF_vars(WaitZeroCas /\ wpc' = "wz_recheck")
    /\ SF_vars(WaitZeroRecheck /\ wpc' # "wz_load")
    /\ \A r \in Readers : WF_vars(ReaderProgress(r))

SpecFair == InitFair /\ [][Next]_vars /\ Fairness

\* ------------------------------------------------------------------ claims
AnyHandle == wAlive \/ \E r \in Readers : rAlive[r]

\* C1: every live Ref points at a node whose count is at least 1 and that is
\* not in the writer's pool.
C1_RefCountedNotPooled ==
    \A r \in Readers : LiveRef(r) =>
        /\ Count(rnode[r]) >= 1
        /\ rnode[r] \notin SeqSet(pool)

\* C2: no node's storage is freed while a Ref to it exists.
C2_NoFreeUnderRef ==
    \A r \in Readers : LiveRef(r) => rnode[r] \notin freed

\* C3: while an InPlaceGuard is live no Ref to the node it mutates is live.
C3_GuardExclusive ==
    GuardLive => \A r \in Readers : ~(LiveRef(r) /\ rnode[r] = gval.ptr)

\* C4: the value behind a Ref does not change while the Ref is live.
C4_RefValueStable ==
    [][\A r \in Readers :
          (LiveRef(r) /\ rpc'[r] = "holding") => data'[rnode[r]] = data[rnode[r]]]_vars

\* C5: while some handle can call read_retro, a non-null previous designates
\* a node held in the garbage queue: not pooled, not current, not freed.
C5_PreviousNotDangling ==
    ((\E r \in Readers : rAlive[r]) /\ previous # NULL) =>
        /\ previous \in SeqSet(garbage)
        /\ previous \notin SeqSet(pool)
        /\ previous # current.ptr
        /\ previous \notin freed

\* C6 as claimed: at every step of the writer, a non-null previous is the
\* tail of a non-empty garbage queue.
C6_PreviousIsTail ==
    (wAlive /\ previous # NULL) =>
        (garbage # <<>> /\ previous = garbage[Len(garbage)])

\* C6 as amended: while the writer handle exists, a non-null previous is in
\* the non-empty garbage queue: it is the tail, except between perform_cow's
\* push_back and its store to previous, when it is the entry before the tail.
C6_PreviousIsTailOrBefore ==
    (wAlive /\ previous # NULL) =>
        /\ garbage # <<>>
        /\ IF wpc = "cow_prev"
           THEN Len(garbage) >= 2 /\ previous = garbage[Len(garbage) - 1]
           ELSE previous = garbage[Len(garbage)]

C6_Witness ==
    wAlive /\ wpc = "cow_prev" /\ previous # NULL /\ Len(garbage) >= 2

\* C7: while any handle exists the pointer part of current is a live node,
\* neither pooled nor queued as garbage, also after the writer is dropped.
C7_CurrentLive ==
    AnyHandle =>
        /\ current.ptr \in 1..nalloc
        /\ current.ptr \notin freed
        /\ current.ptr \notin SeqSet(pool)
        /\ current.ptr \notin SeqSet(garbage)

C7_Witness ==
    /\ ~wAlive /\ \E r \in Readers : rAlive[r]
    /\ freed # {} /\ current.ptr # 1

\* C8: a read begun after an in-place write's guard was dropped yields that
\* write's value or a later one.
C8_ReadAfterInPlace ==
    \A r \in Readers :
        (LiveRef(r) /\ rkind[r] = "cur" /\ seen[r] # <<>> /\ rfloor[r] >= 1) =>
            (kinds[rfloor[r]] = "inplace" => seen[r][1] >= rfloor[r])

\* C9: a read begun after write_cow / perform_cow returned yields that
\* write's value or a later one.
C9_ReadAfterCow ==
    \A r \in Readers :
        (LiveRef(r) /\ rkind[r] = "cur" /\ seen[r] # <<>> /\ rfloor[r] >= 1) =>
            (kinds[rfloor[r]] = "cow" => seen[r][1] >= rfloor[r])

\* C10: a read of current yields only fully installed versions: the initial
\* value or the value of a write already published.
C10_OnlyInstalledVersions ==
    \A r \in Readers :
        (LiveRef(r) /\ rkind[r] = "cur" /\ seen[r] # <<>>) =>
            seen[r][1] \in 0..Published

\* C11: writes compose without loss: whenever the writer is between operations
\* a read of the current node yields the initial value with every completed
\* write (an increment each, copy-on-write or in place) applied to it.
C11_WritesCompose ==
    (wpc = "idle" /\ \E r \in Readers : rAlive[r]) =>
        /\ ~current.lock
        /\ Readable(current.ptr) = {Len(kinds)}

C11_Witness ==
    /\ wpc = "idle" /\ Len(kinds) >= 3
    /\ \E i, j \in 1..Len(kinds) : i < j /\ kinds[i] = "cow" /\ kinds[j] = "inplace"
    /\ \E i, j \in 1..Len(kinds) : i < j /\ kinds[i] = "inplace" /\ kinds[j] = "cow"
    /\ \E r \in Readers : LiveRef(r) /\ rnode[r] = current.ptr /\ seen[r] = <<Len(kinds)>>

\* C12: try_write on a quiescent cell returns InPlace: it never returns
\* Congested when, from the call on, no reader held a Ref or a BlockedReader
\* or was inside an operation.
C12_QuiescentTryWriteInPlace ==
    ~(wpc = "congested" /\ twQuiet /\ Quiescent)

\* C13: try_write does not return InPlace when some reader held a Ref to the
\* current node from the call to the return.
C13_HeldRefCongests ==
    wpc = "guard" => twHeld = {}

\* C14: while the writer holds an InPlaceGuard a try_read that loads current
\* returns Blocked, and no try_read returns Success for a node while the lock
\* bit is set, whenever it started.
C14_LockedNeverSuccess ==
    [][\A r \in Readers :
          /\ (GuardLive /\ rpc[r] = "tr_load" /\ rpc'[r] # "tr_load") =>
                 (rpc'[r] = "idle" /\ rblk'[r])
          /\ (current.lock /\ rpc[r] = "tr_validate") => rpc'[r] # "holding"]_vars

C14_Witness ==
    GuardLive /\ \E r \in Readers : rpc[r] = "idle" /\ rblk[r]

\* C15: read_retro returns Some once a copy-on-write has completed, and None
\* as long as none has stored previous, whatever in-place writes completed.
C15_RetroNoneUntilCow ==
    [][\A r \in Readers : (rpc[r] = "rr_load" /\ rpc'[r] # "rr_load") =>
          /\ "cow" \in SeqSet(kinds) => rpc'[r] = "rr_retain"
          /\ ("cow" \notin SeqSet(kinds) /\ wpc \notin {"cow_notify", "cow_wake"})
                 => rpc'[r] = "idle"]_vars

C15_Witness ==
    /\ previous = NULL /\ "inplace" \in SeqSet(kinds)
    /\ \E r \in Readers : rpc[r] = "rr_load"

\* C16: the value observed through a Ref from read_retro is a version that
\* has been installed as the current value.
C16_RetroValueWasCurrent ==
    \A r \in Readers :
        (LiveRef(r) /\ rkind[r] = "retro" /\ seen[r] # <<>>) =>
            seen[r][1] \in 0..Published

\* A BlockedReader's read_retro that ran while the writer held its guard and
\* no write completed, and the value read through its Ref.
BlockedRetro(r) ==
    /\ GuardLive /\ rblk[r] /\ LiveRef(r) /\ rkind[r] = "retro"
    /\ rfloor[r] = Len(kinds) /\ seen[r] # <<>>

\* The most recent completed copy-on-write, as an index of kinds.
LastCow ==
    CHOOSE i \in 1..Len(kinds) :
        kinds[i] = "cow" /\ \A j \in (i + 1)..Len(kinds) : kinds[j] # "cow"

\* C17 as claimed: a blocked reader's retro read yields the value the cell
\* held immediately before its most recent completed write.
C17_RetroIsPrecedingValue ==
    \A r \in Readers : BlockedRetro(r) => seen[r][1] = Len(kinds) - 1

\* C17 as amended: it yields the value the cell held immediately before its
\* most recent completed copy-on-write.
C17_RetroIsValueBeforeLastCow ==
    \A r \in Readers : BlockedRetro(r) => seen[r][1] = LastCow - 1

C17_Witness ==
    \E r \in Readers :
        /\ BlockedRetro(r) /\ kinds[Len(kinds)] = "inplace"
        /\ seen[r][1] = LastCow - 1 /\ LastCow < Len(kinds)

\* Reader r is inside BlockedReader::wait.
InWait(r) ==
    rpc[r] \in {"w_load", "w_retain", "w_validate", "w_release", "w_wake",
                "w_ticket", "w_recheck", "w_futex", "w_asleep"}

\* C18: write_in_place called while readers hold Refs to the current node
\* returns its guard in the end, when every reader drops its Ref.
C18_WriteInPlaceReturns ==
    (wpc = "fip_gc" /\ \E r \in Readers : LiveRef(r) /\ rnode[r] = current.ptr)
        ~> (wpc = "guard")

\* C19: a reader inside BlockedReader::wait returns a Ref in the end, once
\* the writer has cleared the lock bit and performs no further write.
C19_BlockedReaderReturns ==
    \A r \in Readers :
        (InWait(r) /\ wpc = "idle" /\ wleft = 0) ~> LiveRef(r)

\* The unlock and the notifier's advance fell between the reader's re-check
\* and its futex wait.
C19_Witness ==
    \E r \in Readers :
        rpc[r] = "w_futex" /\ ~current.lock /\ notifier # rticket[r]
\* C20: the Ref returned by BlockedReader::wait yields a version not older
\* than the one current when wait began (the post-mutation value when wait
\* began under an in-place guard).
C20_WaitNotOlder ==
    \A r \in Readers :
        (LiveRef(r) /\ rbase[r] # <<>> /\ seen[r] # <<>>) =>
            seen[r][1] >= rbase[r][1]
\* The writer's positions inside try_write, and inside write_cow / perform_cow.
TryWritePcs ==
    {"tw_gc", "tw_count", "tw_swap", "tw_recount", "tw_rollback", "tw_notify",
     "tw_wake"}
CowPcs ==
    {"cow_gc", "cow_clone", "cow_store", "cow_reset", "cow_f", "cow_swap",
     "cow_push", "cow_prev", "cow_notify", "cow_wake"}

\* An upper bound on the writer's own steps left in try_write, write_cow or
\* perform_cow: the statements ahead, and one loop iteration of
\* collect_garbage per queued node.
StepsAhead(pc) ==
    CASE pc = "tw_gc" -> 7 [] pc = "tw_count" -> 6 [] pc = "tw_swap" -> 5
      [] pc = "tw_recount" -> 4 [] pc = "tw_rollback" -> 3 [] pc = "tw_notify" -> 2
      [] pc = "tw_wake" -> 1
      [] pc = "cow_gc" -> 10 [] pc = "cow_clone" -> 9 [] pc = "cow_store" -> 8
      [] pc = "cow_reset" -> 7 [] pc = "cow_f" -> 6 [] pc = "cow_swap" -> 5
      [] pc = "cow_push" -> 4 [] pc = "cow_prev" -> 3 [] pc = "cow_notify" -> 2
      [] pc = "cow_wake" -> 1
      [] OTHER -> 0
StepsLeft ==
    StepsAhead(wpc) + IF wpc \in {"tw_gc", "cow_gc"} THEN Len(garbage) ELSE 0

\* C22: try_write, write_cow and perform_cow never wait on readers: inside
\* them the writer always has a step to take, whatever the readers hold, and
\* each of its steps lowers a bound on the steps left, ending with the call's
\* return and never in wait_until_zero.
C22_NeverWaitsOnReaders ==
    /\ [](wpc \in TryWritePcs \cup CowPcs => ENABLED WriterProgress)
    /\ [][(wpc \in TryWritePcs \cup CowPcs /\ <<wpc, garbage>>' # <<wpc, garbage>>) =>
             /\ StepsLeft' < StepsLeft
             /\ wpc' \in TryWritePcs \cup CowPcs \cup {"idle", "congested", "guard"}]_vars

\* collect_garbage finds the front node still counted and goes on.
C22_Witness ==
    /\ wpc \in {"tw_gc", "cow_gc"} /\ Len(garbage) > 1
    /\ Count(Head(garbage)) > 0
    /\ \E r \in Readers : LiveRef(r) /\ rnode[r] = Head(garbage)
\* Readers that have retained node n and not yet released it: holders of a
\* Ref, and readers between the optimistic retain and its validation or
\* release.
Retainers(n) ==
    {r \in Readers :
        /\ rnode[r] = n
        /\ rpc[r] \in {"tr_validate", "tr_release", "w_validate", "w_release", "holding"}}

\* C24: for every allocated node that has not been freed, the count field of
\* its RefCount is the number of readers that hold a Ref to it or an
\* optimistic retain on it.
C24_CountIsRefs ==
    \A n \in 1..nalloc : n \notin freed => Count(n) = Cardinality(Retainers(n))
\* Reader r is at the validating load of try_read or wait / at the release
\* that follows a failed validation.
AtValidate(r) == rpc[r] \in {"tr_validate", "w_validate"}
AtRelease(r) == rpc[r] \in {"tr_release", "w_release"}

\* C25: when the validating load of try_read or wait yields a Ref, current
\* at that load is the Ref's node with the lock bit clear; when it fails the
\* reader goes on to release its retain (the count word is decremented) and
\* retries, and it has read nothing of the node's data.
C25_ValidatedOrReleased ==
    [][\A r \in Readers :
          /\ (AtValidate(r) /\ rpc'[r] = "holding") =>
                 /\ current = Word(rnode'[r], FALSE)
                 /\ rnode'[r] = rnode[r]
          /\ (AtValidate(r) /\ rpc'[r] # rpc[r] /\ current # Word(rnode[r], FALSE)) =>
                 /\ rpc'[r] = IF rpc[r] = "tr_validate" THEN "tr_release" ELSE "w_release"
                 /\ seen'[r] = <<>>
          /\ (AtRelease(r) /\ rpc'[r] # rpc[r]) =>
                 /\ rc'[rnode[r]] = ReleaseWord(rc[rnode[r]])
                 /\ rpc'[r] \in {"tr_load", "tr_wake", "w_load", "w_wake"}
                 /\ seen'[r] = <<>>
          /\ (AtValidate(r) \/ AtRelease(r)) => seen[r] = <<>>]_vars

\* A Ref returned by a validated retain, read through after a copy-on-write
\* has superseded its node.
C25_Witness ==
    \E r \in Readers :
        /\ LiveRef(r) /\ rkind[r] = "cur" /\ seen[r] # <<>>
        /\ current.ptr # rnode[r]
\* The writer's positions between setting the lock bit and clearing it: in
\* try_write from the swap to the rollback, in force_in_place while
\* wait_until_zero drains the readers, and while an InPlaceGuard lives.
LockHeldPcs ==
    {"tw_recount", "tw_rollback",
     "wz_load", "wz_cas", "wz_recheck", "wz_futex", "wz_asleep",
     "guard", "guard_written"}

\* C26: the lock bit of current is set exactly while the writer is inside
\* try_write between its swap and its rollback, inside force_in_place
\* draining readers, or holding an InPlaceGuard (so it is clear when the
\* writer is idle with no guard), and no step of a reader changes it.
C26_LockOnlyByWriter ==
    /\ [](current.lock <=> wpc \in LockHeldPcs)
    /\ [][current.lock' # current.lock => (wpc' # wpc /\ UNCHANGED readerVars)]_vars

\* try_write has set the lock bit, found a reader and is about to roll back.
C26_Witness ==
    /\ wpc = "tw_rollback" /\ current.lock
    /\ \E r \in Readers : rpc[r] \in {"tr_validate", "holding"} /\ rnode[r] = current.ptr
\* The writer's positions in an in-place write, from the acquisition of the
\* lock (try_write's swap, force_in_place's swap) to the end of the guard's
\* drop.
InPlacePcs ==
    {"tw_swap", "tw_recount", "fip_swap",
     "wz_load", "wz_cas", "wz_recheck", "wz_futex", "wz_asleep",
     "guard", "guard_written", "gd_notify", "gd_wake"}

\* C28: no step of an in-place write, from the lock's acquisition to the end
\* of the guard's drop, changes the pointer part of current, previous or the
\* garbage queue; and the swap of perform_cow installs a node other than the
\* one it supersedes.
C28_InPlaceKeepsNode ==
    [][/\ wpc \in InPlacePcs =>
             /\ current'.ptr = current.ptr
             /\ UNCHANGED <<previous, garbage>>
       /\ (wpc = "cow_swap" /\ wpc' = "cow_push") =>
             /\ current'.ptr # current.ptr
             /\ wold' = current.ptr]_vars

\* An in-place write has completed after a copy-on-write, and another
\* copy-on-write has just swapped its node in.
C28_Witness ==
    /\ wpc = "cow_push"
    /\ \E i \in 1..Len(kinds) : kinds[i] = "inplace"
    /\ garbage # <<>> /\ previous # NULL

\* C29: a step of a reader changes nothing of the shared state but RefCount
\* words: current, previous, the notifier, the garbage queue, the pool and
\* the nodes' data are changed only in steps of the writer.
C29_ReadersOnlyCount ==
    [][(<<current, previous, notifier, garbage, pool, data, nalloc>>'
            # <<current, previous, notifier, garbage, pool, data, nalloc>>) =>
          /\ wpc' # wpc \/ wAlive' # wAlive \/ wpc \in {"tw_gc", "cow_gc", "fip_gc"}
          /\ UNCHANGED <<readerVars, rAlive>>]_vars

\* A reader has retained and released, and woken the writer, in the middle
\* of a write.
C29_Witness ==
    \E r \in Readers :
        /\ rpc[r] \in {"tr_wake", "w_wake", "d_wake"}
        /\ current.lock

\* C30: the pool grows only by collect_garbage moving the front of a queue
\* of more than one entry whose count reads zero, so the queue's tail is
\* never recycled; and the garbage queue, once non-empty, stays non-empty
\* while the cell lives.
C30_TailNeverRecycled ==
    [][/\ (Len(pool') > Len(pool)) =>
             /\ wpc \in {"tw_gc", "cow_gc", "fip_gc"}
             /\ Len(garbage) > 1
             /\ Count(Head(garbage)) = 0
             /\ pool' = Append(pool, Head(garbage))
             /\ garbage' = Tail(garbage)
       /\ (garbage' # garbage /\ wAlive') =>
             \/ wpc = "cow_push" /\ garbage' = Append(garbage, wold)
             \/ /\ Len(garbage) > 1
                /\ garbage' = Tail(garbage)
                /\ pool' = Append(pool, Head(garbage))
       /\ (garbage # <<>> /\ wAlive') => garbage' # <<>>]_vars

\* collect_garbage has recycled the front and stops at the tail, whose count
\* reads zero as well.
C30_Witness ==
    /\ wpc \in {"tw_gc", "cow_gc", "fip_gc"}
    /\ pool # <<>> /\ Len(garbage) = 1
    /\ Count(garbage[1]) = 0
\* C27: when try_write returns Congested, the lock bit is clear and current
\* and previous are the words they were when the call began; the notifier has
\* been advanced exactly once if the call had set the lock bit (and rolled
\* it back), and not at all otherwise.
C27_CongestedRestores ==
    wpc = "congested" =>
        /\ ~current.lock
        /\ current = twStart.cur
        /\ previous = twStart.prev
        /\ notifier = twStart.note + IF twStart.locked THEN 1 ELSE 0

\* try_write returns Congested after a rollback, on a cell that has a
\* previous version.
C27_Witness ==
    /\ wpc = "congested" /\ twStart.locked
    /\ previous # NULL
\* The Reader has started no read operation (try_read, read, read_retro).
NoReadStarted == rleft[1] = MaxReads

\* No Ref has been handed out: the Reader has started no read operation, or
\* is still inside its first one (or holds the BlockedReader it returned).
NoRefYet ==
    \/ NoReadStarted
    \/ /\ rleft[1] = MaxReads - 1
       /\ rpc[1] \notin {"idle", "holding", "d_wake"} \/ rblk[1]

\* C23: when no reader holds (or has held) a Ref, after a write completes
\* the garbage queue has at most 2 entries and at most 3 nodes have ever
\* been allocated.
C23_BoundedWithoutRefs ==
    (wAlive /\ wpc = "idle" /\ NoRefYet) =>
        Len(garbage) <= 2 /\ nalloc <= 3

\* C23, amended: as long as the Reader has started no read operation, the
\* garbage queue has at most 2 entries and at most 3 nodes have ever been
\* allocated, whatever writes are made.
C23_BoundedWithoutReads ==
    NoReadStarted => Len(garbage) <= 2 /\ nalloc <= 3

\* Every write allowed has been made, all copy-on-write, with no read
\* started: two superseded versions are queued and three nodes exist.
C23_Witness ==
    /\ NoReadStarted /\ wpc = "idle"
    /\ Len(kinds) = MaxWrites /\ \A i \in 1..Len(kinds) : kinds[i] = "cow"
    /\ Len(garbage) = 2 /\ nalloc = 3
\* C21: a read()/try_read() of a reader that began after an earlier read of
\* the same reader was over never yields a value older than that read's.
C21_ReaderMonotonic ==
    \A r \in Readers :
        (LiveRef(r) /\ rkind[r] = "cur" /\ seen[r] # <<>> /\ rlast[r] # <<>>) =>
            seen[r][1] >= rlast[r][1]
\* C31: recycling is first in, first out with head-of-line blocking: a node
\* enters the garbage queue at the back when it is superseded, the pool grows
\* only by the front of the queue, and in a step taken while the front node's
\* count is non-zero no node of the queue enters the pool or leaves the
\* queue.
C31_FifoHeadOfLine ==
    [][wAlive' =>
          /\ (Len(pool') > Len(pool)) =>
                 /\ garbage # <<>>
                 /\ pool' = Append(pool, Head(garbage))
                 /\ garbage' = Tail(garbage)
          /\ (Len(garbage') > Len(garbage)) =>
                 /\ garbage' = Append(garbage, wold)
                 /\ current.ptr # wold
          /\ (garbage # <<>> /\ Count(Head(garbage)) > 0) =>
                 /\ Len(garbage') >= Len(garbage)
                 /\ SubSeq(garbage', 1, Len(garbage)) = garbage
                 /\ SeqSet(garbage) \cap SeqSet(pool') = SeqSet(garbage) \cap SeqSet(pool)]_vars

\* collect_garbage stops at a counted front node while the entry behind it
\* has count zero and a third is queued.
C31_Witness ==
    /\ wpc \in {"tw_gc", "cow_gc", "fip_gc"}
    /\ Len(garbage) > 2
    /\ Count(garbage[1]) > 0 /\ Count(garbage[2]) = 0
\* C32: when perform_cow is about to reset the RefCount of a node taken from
\* the pool, no reader has an outstanding retain on that node and its count
\* is zero with no waiter.
C32_ResetUnreferenced ==
    wpc = "cow_reset" =>
        /\ Retainers(wnew) = {}
        /\ rc[wnew] = ZeroCount
\* C33: the WAITING bit of a node's RefCount is set only while the writer is
\* inside wait_until_zero on that node.
C33_WaitingOnlyWhileDraining ==
    \A n \in 1..nalloc :
        (n \notin freed /\ rc[n].w = WAITING_BIT) =>
            InWaitUntilZero /\ wval.ptr = n
\* C34: the writer is never asleep in wait_until_zero while every reader
\* handle is asleep in BlockedReader::wait (or gone) and none holds a Ref.
C34_NoMutualSleep ==
    ~ /\ wpc = "wz_asleep"
      /\ \E r \in Readers : rAlive[r]
      /\ \A r \in Readers : rAlive[r] => rpc[r] = "w_asleep"
\* How often node n occurs in the sequence s.
Occurrences(s, n) == Cardinality({i \in 1..Len(s) : s[i] = n})

\* The places that own node n: the current slot, the garbage queue, the
\* pool, and perform_cow's locals (new_node before the swap, old_ptr between
\* the swap and its push_back).
Owners(n) ==
    (IF current.ptr = n THEN 1 ELSE 0)
    + Occurrences(garbage, n) + Occurrences(pool, n)
    + (IF wnew = n THEN 1 ELSE 0)
    + (IF wpc = "cow_push" /\ wold = n THEN 1 ELSE 0)

C36_NoUnderflow ==
    /\ [](\A n \in 1..nalloc : Count(n) # COUNT_MASK)
    /\ [][\A r \in Readers :
             (rpc[r] \in {"tr_release", "w_release", "holding"} /\ rpc'[r] # rpc[r]) =>
                 Count(rnode[r]) > 0]_vars
\* C37: while the writer is inside write_cow / perform_cow the lock bit of
\* current is clear, before and after the swap that publishes the new
\* node; previous, once non-null, stays non-null; and previous is never the
\* node current points at.
C37_CowUnlockedPreviousApart ==
    /\ [](wpc \in CowPcs => ~current.lock)
    /\ [](previous # current.ptr)
    /\ [][/\ (wpc = "cow_swap" /\ wpc' # wpc) => current' = Word(wnew, FALSE)
          /\ previous # NULL => previous' # NULL]_vars

\* perform_cow, chosen because a reader holds a Ref to current, has swapped
\* its node in on a cell that already has a previous version.
C37_Witness ==
    /\ wpc = "cow_push" /\ previous # NULL
    /\ \E r \in Readers : LiveRef(r) /\ rnode[r] = wold

\* A reader's release goes on to RefCount::wake.
WakePcs == {"tr_wake", "w_wake", "d_wake"}
ReleaseToWake(r) == rpc[r] \notin WakePcs /\ rpc'[r] \in WakePcs

\* A release wakes exactly when the word it replaced was 1 | WAITING_BIT.
WakeOnlyOnLastWaiting ==
    [][\A r \in Readers :
          /\ ReleaseToWake(r) =>
                /\ rc[rnode[r]] = [w |-> WAITING_BIT, c |-> 1]
                /\ rc'[rnode[r]] = [w |-> WAITING_BIT, c |-> 0]
          /\ (/\ rc' # rc
              /\ rpc[r] \in {"tr_release", "w_release", "holding"}
              /\ rpc'[r] # rpc[r]
              /\ rc[rnode[r]] = [w |-> WAITING_BIT, c |-> 1]) => ReleaseToWake(r)]_vars

NotifyPcs == {"tw_notify", "gd_notify", "cow_notify"}

\* Every store to current that ends a write or a rollback leads to one call of
\* advance_and_wake, and nothing else does: the writer reaches a notify step
\* only from the store (perform_cow: from the swap by way of push_back and
\* previous.store) and leaves it only by the advance; the word in current is
\* unlocked and stays as stored while the ticket advances.
AdvanceFollowsStore(step) ==
    /\ (notifier' # notifier) =>
          /\ wpc \in NotifyPcs
          /\ notifier' = step
          /\ ~current.lock
          /\ current' = current
    /\ (wpc \in NotifyPcs /\ wpc' # wpc) => notifier' = step
    /\ (wpc' \in NotifyPcs /\ wpc' # wpc) =>
          /\ wpc \in {"tw_rollback", "guard_written", "cow_prev"}
          /\ ~current'.lock
    /\ (wpc = "tw_rollback" /\ wpc' # wpc) =>
          wpc' = "tw_notify" /\ current' = PtrPart(current)
    /\ (wpc = "guard_written" /\ wpc' # wpc) =>
          wpc' = "gd_notify" /\ current' = PtrPart(current)
    /\ (wpc = "cow_swap" /\ wpc' # wpc) => wpc' = "cow_push" /\ current' # current
    /\ (wpc = "cow_push" /\ wpc' # wpc) => wpc' = "cow_prev"
    /\ (wpc = "cow_prev" /\ wpc' # wpc) => wpc' = "cow_notify"

\* C39 (as stated): the notifier ticket never decreases; it advances by
\* exactly one on each InPlaceGuard drop, each perform_cow publication and
\* each try_write rollback, after the store to current, and on no other
\* operation.
C39_TicketNeverDecreases ==
    [][/\ ~ TicketBelow(notifier', notifier)
       /\ AdvanceFollowsStore(TicketNext(notifier))]_vars

\* C39 (amended): the ticket advances by exactly one modulo 2^32 on each
\* InPlaceGuard drop, each perform_cow publication and each try_write
\* rollback, after the store to current, and on no other operation; it
\* decreases only by wrapping from 2^32 - 1 to 0.
C39_TicketAdvancesModulo ==
    [][/\ AdvanceFollowsStore(TicketNext(notifier))
       /\ TicketBelow(notifier', notifier) => notifier = TicketTop /\ notifier' = 0]_vars

\* Witness: after an in-place write, perform_cow's advance has wrapped the
\* ticket to 0.
C39_Witness ==
    wpc = "cow_wake" /\ notifier = 0 /\ kinds = <<"inplace">> /\ ~current.lock

====
